---- MODULE Spec2Model ----
(***************************************************************************)
(* Model of the keyed list of src/src/KeyedList.ts.                        *)
(*                                                                         *)
(* JavaScript objects are modelled by reference: `heap` is the sequence of *)
(* all objects allocated so far, an address is an index into it.  An       *)
(* element object is a function from a subset of Fields to values; a list  *)
(* object is a record [keys, elements] where keys is a sequence of ids and *)
(* elements maps ids to ADDRESSES of element objects, so that two lists,   *)
(* or a list and its caller, can share one element object exactly when the *)
(* code lets them.                                                         *)
(***************************************************************************)
EXTENDS Integers, Sequences, FiniteSets, TLC

VARIABLES
    heap,     \* all objects allocated so far; an address is an index
    list,     \* address of the list the caller currently holds
    arg,      \* address of the list passed to the last operation (NoRef: none)
    passed,   \* addresses of the element objects passed to the operation
              \* that built `list`, in argument order; the caller keeps them
    got,      \* address of the element the last lookup returned (or NoRef)
    lastOp,   \* name of the last step
    clean,    \* the list was built from elements with unique ids and the
              \* caller has assigned to no field of an object so far
    steps,    \* number of steps so far
    inp,      \* what the last call was given besides the list: the ids of
              \* getByIds, the comparator of sort, the callback of map,
              \* mapIds and filter (<<>>: nothing)
    out,      \* what the last getByIds, map, mapIds or filter call returned
              \* and, for map and mapIds, the calls the callback received
    wrote     \* the caller has assigned to a field of an object it holds

vars == <<heap, list, arg, passed, got, lastOp, clean, steps, inp, out, wrote>>

\* ---------------------------------------------------------------- bounds
\* The caller's budget: one unit per call, lookup or assignment, and one per
\* element of the array a list is built from.
MaxSteps == 3

\* ---------------------------------------------------------------- values
\* The value `undefined`; as a property key JavaScript turns it into the
\* string "undefined".
Undefined == "undefined"

\* No object: what a lookup yields when the property does not exist.
NoRef == 0

Ids == {"", "1", "2"}
Names == {"A", "B"}
Ages == {1, 2}
Fields == {"id", "name", "age"}

\* Complete elements a caller passes to fromArray / append / insert.
Elems == { [id |-> i, name |-> "A", age |-> 1] : i \in Ids }

\* Values of each field, for a caller that assigns to a field
ValuesOf(f) == CASE f = "id" -> Ids [] f = "name" -> Names [] OTHER -> Ages

\* Partial<T> & ElementWithId : a mandatory id and any subset of the rest.
Patches ==
    { [id |-> i] : i \in Ids }
    \cup { [id |-> i, name |-> "B"] : i \in Ids }
    \cup { [id |-> i, age |-> 2] : i \in Ids }
    \cup { [id |-> i, name |-> "B", age |-> 2] : i \in Ids }

\* ---------------------------------------------------------------- objects
\* o.f for a property that may be missing
Get(o, f) == IF f \in DOMAIN o THEN o[f] ELSE Undefined

\* Object.assign({}, a, b) and { ...a, ...b }: b's properties win
Assign(a, b) ==
    [f \in (DOMAIN a) \cup (DOMAIN b) |-> IF f \in DOMAIN b THEN b[f] ELSE a[f]]

EmptyObj == [f \in {} |-> Undefined]

\* obj[k] for an object whose properties hold addresses
Lookup(obj, k) == IF k \in DOMAIN obj THEN obj[k] ELSE NoRef

\* the object at address a; { ...undefined } is {}
Deref(h, a) == IF a = NoRef THEN EmptyObj ELSE h[a]

\* array[i] with a 0-based index: undefined outside the array
At(arr, i) == IF i >= 0 /\ i < Len(arr) THEN arr[i + 1] ELSE Undefined

\* Property enumeration order of Object.values / spread: integer-like keys
\* in ascending numeric order, then the other string keys in insertion
\* order ("" and "undefined" are the only non-integer keys here; "undefined"
\* can only be created by sort, after every other key of the same object).
KeyRank(k) == CASE k = "1" -> 1 [] k = "2" -> 2 [] k = "" -> 3 [] OTHER -> 4

RECURSIVE OwnKeys(_)
OwnKeys(S) ==
    IF S = {} THEN <<>>
    ELSE LET k == CHOOSE x \in S : \A y \in S : KeyRank(x) <= KeyRank(y)
         IN  <<k>> \o OwnKeys(S \ {k})

\* Array.prototype.filter on a sequence of ids
RECURSIVE FilterNe(_, _)
FilterNe(s, id) ==
    IF s = <<>> THEN <<>>
    ELSE (IF Head(s) # id THEN <<Head(s)>> ELSE <<>>) \o FilterNe(Tail(s), id)

\* ------------------------------------------------------------ operations
\* Each operation takes the heap and addresses, and yields the heap after
\* the call (h) and the returned value (r).

\* fromArray, KeyedList.ts:27-35
RECURSIVE fromArrayReduce(_, _, _)
fromArrayReduce(h, array, prev) ==
    IF array = <<>> THEN [h |-> h, r |-> prev]
    ELSE LET curr == h[Head(array)]
             h1 == Append(h, curr)                     \* { ...curr }
         IN  fromArrayReduce(h1, Tail(array),
                 Assign(prev, [k \in {Get(curr, "id")} |-> Len(h1)]))

fromArray(h, array) ==
    LET keys == [i \in 1..Len(array) |-> Get(h[array[i]], "id")]
        red == fromArrayReduce(h, array, EmptyObj)
    IN  [h |-> Append(red.h, [keys |-> keys, elements |-> red.r]),
         r |-> Len(red.h) + 1]

\* toArray walking the mapping (Object.values) instead of the key sequence
toArray_ByValues(h, l) ==
    LET keys == OwnKeys(DOMAIN h[l].elements)
        n == Len(keys)
    IN  [h |-> h \o [i \in 1..n |-> Deref(h, Lookup(h[l].elements, keys[i]))],
         r |-> [i \in 1..n |-> Len(h) + i]]

\* toArray, KeyedList.ts:47-48 : the copies are allocated in key order
toArray(h, l) ==
    LET keys == h[l].keys
        n == Len(keys)
    IN  [h |-> h \o [i \in 1..n |-> Deref(h, Lookup(h[l].elements, keys[i]))],
         r |-> [i \in 1..n |-> Len(h) + i]]

\* getById, KeyedList.ts:64
getById(h, l, id) == Lookup(h[l].elements, id)

\* getByIds, KeyedList.ts:103-112 : ids.map pushes a copy of every element
\* the mapping holds under an id of ids, in the order of ids
RECURSIVE getByIdsWalk(_, _, _, _)
getByIdsWalk(h, l, ids, newElements) ==
    IF ids = <<>> THEN [h |-> h, r |-> newElements]
    ELSE LET x == Lookup(h[l].elements, Head(ids))
         IN  IF x # NoRef
             THEN getByIdsWalk(Append(h, h[x]), l, Tail(ids),
                               Append(newElements, Len(h) + 1))
             ELSE getByIdsWalk(h, l, Tail(ids), newElements)

\* getByIds walking the list's keys and keeping those that occur in ids
getByIds_KeyOrder(h, l, ids) ==
    getByIdsWalk(h, l,
        SelectSeq(h[l].keys, LAMBDA k : k \in {ids[i] : i \in 1..Len(ids)}),
        <<>>)

getByIds(h, l, ids) == getByIdsWalk(h, l, ids, <<>>)

\* getIdByIndex, KeyedList.ts:117-121
getIdByIndex(h, l, index) ==
    IF index >= 0 THEN At(h[l].keys, index) ELSE Undefined

\* update with Object.assign(list.elements[id], elemProps): the stored
\* element is patched in place
update_InPlace(h, l, p) ==
    LET elemProps == h[p]
        id == Get(elemProps, "id")
        stored == Lookup(h[l].elements, id)
        h1 == IF stored = NoRef THEN Append(h, elemProps)
              ELSE [h EXCEPT ![stored] = Assign(@, elemProps)]
        target == IF stored = NoRef THEN Len(h1) ELSE stored
    IN  [h |-> Append(h1, [keys |-> h[l].keys,
                           elements |-> Assign(h[l].elements,
                                               [k \in {id} |-> target])]),
         r |-> Len(h1) + 1]

\* update that stores the patch without merging it into the element
update_Replace(h, l, p) ==
    LET elemProps == h[p]
        id == Get(elemProps, "id")
        h1 == Append(h, elemProps)
    IN  [h |-> Append(h1, [keys |-> h[l].keys,
                           elements |-> Assign(h[l].elements,
                                               [k \in {id} |-> Len(h1)])]),
         r |-> Len(h1) + 1]

\* update, KeyedList.ts:144-150
update(h, l, p) ==
    LET elemProps == h[p]
        id == Get(elemProps, "id")
        merged == Assign(Deref(h, Lookup(h[l].elements, id)), elemProps)
        h1 == Append(h, merged)
    IN  [h |-> Append(h1, [keys |-> h[l].keys,
                           elements |-> Assign(h[l].elements,
                                               [k \in {id} |-> Len(h1)])]),
         r |-> Len(h1) + 1]

\* getFirst, KeyedList.ts:167-169
getFirst(h, l) == Lookup(h[l].elements, At(h[l].keys, 0))

\* getLast reading keys[keys.length]
getLast_OffByOne(h, l) == Lookup(h[l].elements, At(h[l].keys, Len(h[l].keys)))

\* getLast, KeyedList.ts:185-187
getLast(h, l) == Lookup(h[l].elements, At(h[l].keys, Len(h[l].keys) - 1))

\* getByIndex, KeyedList.ts:204-207 : "" and undefined are falsy
getByIndex(h, l, index) ==
    LET idByIndex == At(h[l].keys, index)
    IN  IF idByIndex # Undefined /\ idByIndex # ""
        THEN Lookup(h[l].elements, idByIndex) ELSE NoRef

\* append storing the element under its name instead of its id
append_KeyedByName(h, l, x) ==
    LET id == Get(h[x], "id")
    IN  [h |-> Append(h, [keys |-> Append(h[l].keys, id),
                          elements |-> Assign(h[l].elements,
                                              [k \in {Get(h[x], "name")} |-> x])]),
         r |-> Len(h) + 1]

\* append, KeyedList.ts:234-242 : the element object itself is stored
append(h, l, x) ==
    LET id == Get(h[x], "id")
    IN  [h |-> Append(h, [keys |-> Append(h[l].keys, id),
                          elements |-> Assign(h[l].elements, [k \in {id} |-> x])]),
         r |-> Len(h) + 1]

\* insert, KeyedList.ts:269-277
insert(h, l, x) ==
    LET id == Get(h[x], "id")
    IN  [h |-> Append(h, [keys |-> <<id>> \o h[l].keys,
                          elements |-> Assign(h[l].elements, [k \in {id} |-> x])]),
         r |-> Len(h) + 1]

\* getCount, KeyedList.ts:282-283
getCount(h, l) == Len(h[l].keys)

\* removeById, KeyedList.ts:304-316 : the mapping is rebuilt from the
\* entries' own id fields, in property enumeration order
RECURSIVE removeReduce(_, _, _, _)
removeReduce(h, values, id, prev) ==
    IF values = <<>> THEN prev
    ELSE LET curr == Head(values)
             cid == Get(h[curr], "id")
         IN  removeReduce(h, Tail(values), id,
                 IF cid = id THEN prev
                 ELSE Assign(prev, [k \in {cid} |-> curr]))

\* removeById dropping only the first occurrence of id from the keys
\* (indexOf + splice instead of filter)
RECURSIVE RemoveFirst(_, _)
RemoveFirst(s, id) ==
    IF s = <<>> THEN <<>>
    ELSE IF Head(s) = id THEN Tail(s)
    ELSE <<Head(s)>> \o RemoveFirst(Tail(s), id)

removeById_FirstOnly(h, l, id) ==
    LET newKeyes == RemoveFirst(h[l].keys, id)
        ks == OwnKeys(DOMAIN h[l].elements)
        values == [i \in 1..Len(ks) |-> h[l].elements[ks[i]]]
    IN  [h |-> Append(h, [keys |-> newKeyes,
                          elements |-> removeReduce(h, values, id, EmptyObj)]),
         r |-> Len(h) + 1]

removeById(h, l, id) ==
    LET newKeyes == FilterNe(h[l].keys, id)
        ks == OwnKeys(DOMAIN h[l].elements)
        values == [i \in 1..Len(ks) |-> h[l].elements[ks[i]]]
    IN  [h |-> Append(h, [keys |-> newKeyes,
                          elements |-> removeReduce(h, values, id, EmptyObj)]),
         r |-> Len(h) + 1]

\* remove, KeyedList.ts:337-338
remove(h, l, x) == removeById(h, l, Get(h[x], "id"))

\* A three-way comparator supplied by the caller, as in
\* (left, right) => left.age - right.age (KeyedList.test.ts:436); a missing
\* age counts as 0, so that the comparator is a consistent ordering.
AgeOf(o) == IF "age" \in DOMAIN o THEN o.age ELSE 0

Comparators == {"byAge", "byAgeDesc"}

compareWith(c, lval, rval) ==
    IF c = "byAge" THEN AgeOf(lval) - AgeOf(rval) ELSE AgeOf(rval) - AgeOf(lval)

\* Array.prototype.sort is stable (ECMAScript 2019): x goes after every
\* element that does not compare after it.
RECURSIVE InsertSorted(_, _, _, _)
InsertSorted(h, s, x, c) ==
    IF s = <<>> THEN <<x>>
    ELSE LET y == s[Len(s)]
         IN  IF compareWith(c, h[y], h[x]) > 0
             THEN Append(InsertSorted(h, SubSeq(s, 1, Len(s) - 1), x, c), y)
             ELSE Append(s, x)

RECURSIVE ArraySort(_, _, _)
ArraySort(h, s, c) ==
    IF s = <<>> THEN <<>>
    ELSE InsertSorted(h, ArraySort(h, SubSeq(s, 1, Len(s) - 1), c), s[Len(s)], c)

\* sort, KeyedList.ts:428-437
RECURSIVE sortReduce(_, _, _)
sortReduce(h, sortedElems, prev) ==
    IF sortedElems = <<>> THEN prev
    ELSE LET elem == Head(sortedElems)
         IN  sortReduce(h, Tail(sortedElems),
                 Assign(prev, [k \in {Get(h[elem], "id")} |-> elem]))

\* sort with a sorting algorithm that is not stable: elements that compare
\* equal come out in the reverse of their order in the list
sort_TiesReversed(h, l, c) ==
    LET ta == toArray(h, l)
        n == Len(ta.r)
        sortedElems == ArraySort(ta.h, [i \in 1..n |-> ta.r[n + 1 - i]], c)
    IN  [h |-> Append(ta.h,
                  [keys |-> [i \in 1..Len(sortedElems) |->
                                 Get(ta.h[sortedElems[i]], "id")],
                   elements |-> sortReduce(ta.h, sortedElems, EmptyObj)]),
         r |-> Len(ta.h) + 1]

sort(h, l, c) ==
    LET ta == toArray(h, l)
        sortedElems == ArraySort(ta.h, ta.r, c)
    IN  [h |-> Append(ta.h,
                  [keys |-> [i \in 1..Len(sortedElems) |->
                                 Get(ta.h[sortedElems[i]], "id")],
                   elements |-> sortReduce(ta.h, sortedElems, EmptyObj)]),
         r |-> Len(ta.h) + 1]

\* Callbacks the caller passes to map and mapIds: both record the call, one
\* returns its first argument (KeyedList.test.ts:398-403), one the index.
Mappers == {"first", "index"}

Apply(mapper, x, index, xs) == IF mapper = "first" THEN x ELSE index

\* list.keys.map(key => mapper({ ...list.elements[key] }, i++, list)) from
\* index i on; calls is what the callback received, call by call
RECURSIVE mapWalk(_, _, _, _, _, _)
mapWalk(h, l, keys, i, mapper, acc) ==
    IF keys = <<>> THEN [h |-> h, r |-> acc.r, calls |-> acc.calls]
    ELSE LET h1 == Append(h, Deref(h, Lookup(h[l].elements, Head(keys))))
             elem == Len(h1)
         IN  mapWalk(h1, l, Tail(keys), i + 1, mapper,
                     [r |-> Append(acc.r, Apply(mapper, elem, i, l)),
                      calls |-> Append(acc.calls, <<elem, i, l>>)])

\* map counting from 1
map_IndexFromOne(h, l, mapper) ==
    mapWalk(h, l, h[l].keys, 1, mapper, [r |-> <<>>, calls |-> <<>>])

\* map, KeyedList.ts:357-364
map(h, l, mapper) ==
    mapWalk(h, l, h[l].keys, 0, mapper, [r |-> <<>>, calls |-> <<>>])

\* mapIds, KeyedList.ts:383-386
mapIds(h, l, mapper) ==
    LET keys == h[l].keys
    IN  [h |-> h,
         r |-> [i \in 1..Len(keys) |-> Apply(mapper, keys[i], i - 1, l)],
         calls |-> [i \in 1..Len(keys) |-> <<keys[i], i - 1, l>>]]

\* Predicates the caller passes to filter: () => true and
\* x => x.age >= 2 (KeyedList.test.ts:416-417). Reading .age of undefined
\* throws a TypeError; a missing age is undefined, and undefined >= 2 is
\* false.
Predicates == {"all", "ageAtLeast2"}

Throws(p, a) == p = "ageAtLeast2" /\ a = NoRef

Holds(p, o) == p = "all" \/ ("age" \in DOMAIN o /\ o.age >= 2)

\* filter, KeyedList.ts:405-411 : the predicate is given the stored element
\* (undefined when the mapping has none under the key); the kept keys go
\* through getByIds. thrown: the predicate's exception ended the call.
filter(h, l, filterFunction) ==
    LET ks == h[l].keys
        elem(id) == Lookup(h[l].elements, id)
    IN  IF \E i \in 1..Len(ks) : Throws(filterFunction, elem(ks[i]))
        THEN [h |-> h, r |-> <<>>, thrown |-> TRUE]
        ELSE LET keys == SelectSeq(ks,
                            LAMBDA id : Holds(filterFunction, Deref(h, elem(id))))
                 c == getByIds(h, l, keys)
             IN  [h |-> c.h, r |-> c.r, thrown |-> FALSE]

\* ------------------------------------------------------------ the caller
\* The caller holds one list at a time, calls the library on it and keeps
\* the result; it also keeps the objects it passed in and the element the
\* last lookup returned, and may assign to their fields.

Init ==
    LET c == fromArray(<<>>, <<>>)          \* fromArray() : array = []
    IN  /\ heap = c.h
        /\ list = c.r
        /\ arg = NoRef
        /\ passed = <<>>
        /\ got = NoRef
        /\ lastOp = "fromArray"
        /\ clean = TRUE
        /\ steps = 0
        /\ inp = <<>>
        /\ out = <<>>
        /\ wrote = FALSE

\* Non-empty array literals, ids in any order, repeated or not (Init is the
\* list built from the empty array)
Arrays == UNION { [1..n -> Elems] : n \in 1..MaxSteps }

\* const l = fromArray([ ...literals ]) : fromArray takes no list, so the
\* caller builds its list first; building one later reaches no list that
\* building it first does not.
DoFromArray ==
    /\ steps = 0
    /\ \E xs \in Arrays :
          LET h0 == heap \o xs
              arr == [i \in 1..Len(xs) |-> Len(heap) + i]
              c == fromArray(h0, arr)
          IN  /\ heap' = c.h
              /\ list' = c.r
              /\ passed' = arr
              /\ clean' = (\A i, j \in 1..Len(xs) : xs[i].id = xs[j].id => i = j)
              /\ steps' = Len(xs)
    /\ arg' = NoRef
    /\ got' = NoRef
    /\ lastOp' = "fromArray"
    /\ inp' = <<>>
    /\ out' = <<>>
    /\ UNCHANGED wrote

\* l = append(l, { ...literal })
DoAppend ==
    /\ steps < MaxSteps
    /\ \E e \in Elems :
          LET h0 == Append(heap, e)
              c == append(h0, list, Len(h0))
          IN  /\ heap' = c.h
              /\ list' = c.r
              /\ passed' = <<Len(h0)>>
    /\ arg' = list
    /\ got' = NoRef
    /\ lastOp' = "append"
    /\ steps' = steps + 1
    /\ UNCHANGED clean
    /\ inp' = <<>>
    /\ out' = <<>>
    /\ UNCHANGED wrote

\* l = insert(l, { ...literal })
DoInsert ==
    /\ steps < MaxSteps
    /\ \E e \in Elems :
          LET h0 == Append(heap, e)
              c == insert(h0, list, Len(h0))
          IN  /\ heap' = c.h
              /\ list' = c.r
              /\ passed' = <<Len(h0)>>
    /\ arg' = list
    /\ got' = NoRef
    /\ lastOp' = "insert"
    /\ steps' = steps + 1
    /\ UNCHANGED clean
    /\ inp' = <<>>
    /\ out' = <<>>
    /\ UNCHANGED wrote

\* l = update(l, { id, ...some fields })
DoUpdate ==
    /\ steps < MaxSteps
    /\ \E p \in Patches :
          LET h0 == Append(heap, p)
              c == update(h0, list, Len(h0))
          IN  /\ heap' = c.h
              /\ list' = c.r
              /\ passed' = <<Len(h0)>>
    /\ arg' = list
    /\ got' = NoRef
    /\ lastOp' = "update"
    /\ steps' = steps + 1
    /\ UNCHANGED clean
    /\ inp' = <<>>
    /\ out' = <<>>
    /\ UNCHANGED wrote

\* l = removeById(l, id)
DoRemoveById ==
    /\ steps < MaxSteps
    /\ \E id \in Ids :
          LET c == removeById(heap, list, id)
          IN  /\ heap' = c.h
              /\ list' = c.r
    /\ arg' = list
    /\ passed' = <<>>
    /\ got' = NoRef
    /\ lastOp' = "removeById"
    /\ steps' = steps + 1
    /\ UNCHANGED clean
    /\ inp' = <<>>
    /\ out' = <<>>
    /\ UNCHANGED wrote

\* the element objects the caller holds a reference to
Held == ({passed[i] : i \in 1..Len(passed)} \cup {got}) \ {NoRef}

\* l = remove(l, x) for an element x the caller holds
DoRemove ==
    /\ steps < MaxSteps
    /\ \E x \in Held :
          LET c == remove(heap, list, x)
          IN  /\ heap' = c.h
              /\ list' = c.r
    /\ arg' = list
    /\ passed' = <<>>
    /\ got' = NoRef
    /\ lastOp' = "remove"
    /\ steps' = steps + 1
    /\ UNCHANGED clean
    /\ inp' = <<>>
    /\ out' = <<>>
    /\ UNCHANGED wrote

\* l = sort(l, comparator)
DoSort ==
    /\ steps < MaxSteps
    /\ \E cmp \in Comparators :
          LET c == sort(heap, list, cmp)
          IN  /\ heap' = c.h
              /\ list' = c.r
              /\ inp' = cmp
    /\ arg' = list
    /\ passed' = <<>>
    /\ got' = NoRef
    /\ lastOp' = "sort"
    /\ steps' = steps + 1
    /\ UNCHANGED clean
    /\ out' = <<>>
    /\ UNCHANGED wrote

\* a lookup: the caller keeps what it returned
Looked(r) ==
    /\ steps < MaxSteps
    /\ got' = r
    /\ lastOp' = "get"
    /\ steps' = steps + 1
    /\ UNCHANGED <<heap, list, arg, passed, clean>>
    /\ inp' = <<>>
    /\ out' = <<>>
    /\ UNCHANGED wrote

DoGetById == \E id \in Ids : Looked(getById(heap, list, id))

DoGetFirst == Looked(getFirst(heap, list))

DoGetLast == Looked(getLast(heap, list))

DoGetByIndex == \E index \in -1..MaxSteps : Looked(getByIndex(heap, list, index))

\* held.f = v : the caller assigns to a field of an object it holds

Mutate ==
    /\ steps < MaxSteps
    /\ \E a \in Held : \E f \in DOMAIN heap[a] : \E v \in ValuesOf(f) :
          /\ v # heap[a][f]
          /\ heap' = [heap EXCEPT ![a] = Assign(@, [g \in {f} |-> v])]
    /\ lastOp' = "mutate"
    /\ clean' = FALSE
    /\ steps' = steps + 1
    /\ UNCHANGED <<list, arg, passed, got>>
    /\ wrote' = TRUE
    /\ inp' = <<>>
    /\ out' = <<>>

Next ==
    \/ DoFromArray
    \/ DoAppend
    \/ DoInsert
    \/ DoUpdate
    \/ DoRemoveById
    \/ DoRemove
    \/ DoSort
    \/ DoGetById
    \/ DoGetFirst
    \/ DoGetLast
    \/ DoGetByIndex
    \/ Mutate

Spec == Init /\ [][Next]_vars

\* ------------------------------------------------------------ properties
Range(s) == {s[i] : i \in 1..Len(s)}

NoDuplicate(s) == \A i, j \in 1..Len(s) : s[i] = s[j] => i = j

\* what a list holds: its key sequence and the content of every element
Content(h, l) ==
    [keys |-> h[l].keys,
     elements |-> [k \in DOMAIN h[l].elements |-> h[h[l].elements[k]]]]

\* what getById yields for every key of the mapping
Lookups(h, l) == [k \in DOMAIN h[l].elements |-> Deref(h, getById(h, l, k))]

MutationOps == {"append", "insert", "update", "removeById", "remove", "sort"}

\* C1: starting from fromArray of elements with unique ids, after any
\* sequence of append, insert, removeById and update calls the key sequence
\* has no duplicate and its set of keys is the set of keys of the mapping.
C1_OrderInvariant ==
    clean =>
        /\ NoDuplicate(heap[list].keys)
        /\ Range(heap[list].keys) = DOMAIN heap[list].elements

\* C2: every mutation-style operation leaves its argument list unchanged
\* (same key sequence, same content of every element reachable through it)
\* and returns a distinct list.
C2_ArgumentUnchanged ==
    [][lastOp' \in MutationOps =>
          /\ Content(heap', list) = Content(heap, list)
          /\ list' # list]_vars

C2_Witness ==
    /\ lastOp \in MutationOps
    /\ arg # NoRef
    /\ Content(heap, list) # Content(heap, arg)

\* C3: assigning to a field of an object after it was passed to fromArray,
\* append, insert or update does not change what getById returns from the
\* list that call returned.
C3_PassedDecoupled ==
    [][(/\ lastOp' = "mutate"
        /\ \E i \in 1..Len(passed) : heap'[passed[i]] # heap[passed[i]])
       => Lookups(heap', list) = Lookups(heap, list)]_vars

\* C4: assigning to a field of an element a lookup returned does not change
\* what later lookups on the list return.
C4_ReturnedDecoupled ==
    [][(/\ lastOp' = "mutate"
        /\ got # NoRef
        /\ got \notin Range(passed)
        /\ heap'[got] # heap[got])
       => Lookups(heap', list) = Lookups(heap, list)]_vars

\* C5: for every array xs of elements with pairwise distinct ids,
\* toArray(fromArray(xs)) has the length of xs and is element-wise equal to
\* xs, in the same order.
C5_RoundTrip ==
    (lastOp = "fromArray" /\ clean) =>
        LET ta == toArray(heap, list)
        IN  /\ Len(ta.r) = Len(passed)
            /\ \A i \in 1..Len(passed) : ta.h[ta.r[i]] = heap[passed[i]]

C5_Witness ==
    /\ lastOp = "fromArray" /\ clean
    /\ Len(passed) = 2
    /\ KeyRank(heap[passed[1]].id) > KeyRank(heap[passed[2]].id)

\* C6: for a list that contains id k, update with patch.id = k returns a
\* list in which element k has every field of the patch set to the patch's
\* value and every other field equal to its previous value, while the key
\* sequence and every other element are those of the input.
C6_UpdateMerges ==
    (lastOp = "update" /\ getById(heap, arg, heap[passed[1]].id) # NoRef) =>
        LET elemProps == heap[passed[1]]
            k == elemProps.id
            old == heap[getById(heap, arg, k)]
            new == Deref(heap, getById(heap, list, k))
        IN  /\ DOMAIN new = (DOMAIN old) \cup (DOMAIN elemProps)
            /\ \A f \in DOMAIN elemProps : new[f] = elemProps[f]
            /\ \A f \in (DOMAIN old) \ (DOMAIN elemProps) : new[f] = old[f]
            /\ heap[list].keys = heap[arg].keys
            /\ DOMAIN heap[list].elements = DOMAIN heap[arg].elements
            /\ \A j \in (DOMAIN heap[arg].elements) \ {k} :
                  heap[getById(heap, list, j)] = heap[getById(heap, arg, j)]

C6_Witness ==
    /\ lastOp = "update"
    /\ getById(heap, arg, heap[passed[1]].id) # NoRef
    /\ DOMAIN heap[passed[1]] = {"id", "age"}
    /\ heap[getById(heap, arg, heap[passed[1]].id)] = [id |-> "1", name |-> "A", age |-> 1]
    /\ Len(heap[arg].keys) = 2

\* C7: when patch.id is not a key of the list, update is a no-op: the
\* result's mapping gains no entry under patch.id and its key sequence is
\* the input's.
C7_UpdateAbsentNoOp ==
    (/\ lastOp = "update"
     /\ heap[passed[1]].id \notin DOMAIN heap[arg].elements
     /\ heap[passed[1]].id \notin Range(heap[arg].keys)) =>
        /\ getById(heap, list, heap[passed[1]].id) = NoRef
        /\ heap[list].keys = heap[arg].keys

\* the keys of s other than id, in their order in s
Without(s, id) == SelectSeq(s, LAMBDA x : x # id)

\* the entries of the mapping of l, by content
Entries(h, l) == [k \in DOMAIN h[l].elements |-> h[h[l].elements[k]]]

\* C8: removeById(list, id) returns a list in which id occurs neither in
\* the key sequence nor in the mapping, all other keys keep their relative
\* order and all other entries their content; when id is not in the list
\* the result has the input's key sequence and content; remove(list, x) is
\* removeById(list, x.id).
C8_RemoveById ==
    /\ \A id \in Ids :
          LET c == removeById(heap, list, id)
              old == Entries(heap, list)
              new == Entries(c.h, c.r)
          IN  /\ id \notin Range(c.h[c.r].keys)
              /\ id \notin DOMAIN new
              /\ c.h[c.r].keys = Without(heap[list].keys, id)
              /\ DOMAIN new = (DOMAIN old) \ {id}
              /\ \A k \in DOMAIN new : new[k] = old[k]
    /\ \A x \in Held :
          Content(remove(heap, list, x).h, remove(heap, list, x).r)
              = Content(removeById(heap, list, heap[x].id).h,
                        removeById(heap, list, heap[x].id).r)

\* C9: removal is idempotent: removing k again from removeById(list, k)
\* yields the same key sequence and the same content.
C9_RemoveIdempotent ==
    \A k \in Ids :
        LET once == removeById(heap, list, k)
            twice == removeById(once.h, once.r, k)
        IN  Content(twice.h, twice.r) = Content(once.h, once.r)

C9_Witness ==
    /\ lastOp = "removeById"
    /\ \E k \in Ids :
          /\ \E i, j \in 1..Len(heap[arg].keys) :
                i # j /\ heap[arg].keys[i] = k /\ heap[arg].keys[j] = k
          /\ k \notin Range(heap[list].keys)

\* C10: getLast(append(list, e)) and getFirst(insert(list, e)) are
\* field-wise equal to e, whether or not e.id was a key of list, and the
\* result counts one element more than list.
C10_AppendInsertPosition ==
    /\ lastOp = "append" =>
          /\ Deref(heap, getLast(heap, list)) = heap[passed[1]]
          /\ getCount(heap, list) = getCount(heap, arg) + 1
    /\ lastOp = "insert" =>
          /\ Deref(heap, getFirst(heap, list)) = heap[passed[1]]
          /\ getCount(heap, list) = getCount(heap, arg) + 1

C10_Witness ==
    /\ lastOp \in {"append", "insert"}
    /\ heap[passed[1]].id \in Range(heap[arg].keys)
    /\ heap[passed[1]] # heap[getById(heap, arg, heap[passed[1]].id)]
    /\ getCount(heap, arg) = 1

\* ------------------------------------------------------- reading a list
\* A second caller: it builds its list from an array whose elements differ
\* in age, makes at most one modifying call, and then reads the list once
\* with getByIds, map, mapIds or filter.

\* longest array this caller starts from
MaxArr == 3

\* longest ids array it passes to getByIds
MaxIds == 3

\* elements whose ages tie ("1", "2") and differ ("")
ViewElems ==
    { [id |-> i, name |-> "A", age |-> (IF i = "" THEN 1 ELSE 2)] : i \in Ids }

ViewArrays == UNION { [1..n -> ViewElems] : n \in 0..MaxArr }

IdSeqs == UNION { [1..n -> Ids] : n \in 0..MaxIds }

ViewInit ==
    \E xs \in ViewArrays :
        LET arr == [i \in 1..Len(xs) |-> i]
            c == fromArray(xs, arr)
        IN  /\ heap = c.h
            /\ list = c.r
            /\ arg = NoRef
            /\ passed = arr
            /\ got = NoRef
            /\ lastOp = "fromArray"
            /\ clean = (\A i, j \in 1..Len(xs) : xs[i].id = xs[j].id => i = j)
            /\ steps = MaxSteps - 1
            /\ inp = <<>>
            /\ out = <<>>
            /\ wrote = FALSE

\* the steps that hand the caller a list
Built == {"fromArray", "append", "insert", "update", "removeById", "sort"}

\* a read of the list the caller has just built; it spends what is left of
\* the budget, so that it ends the run
Read(name, given, h, returned) ==
    /\ lastOp \in Built
    /\ heap' = h
    /\ inp' = given
    /\ out' = returned
    /\ lastOp' = name
    /\ arg' = list
    /\ steps' = MaxSteps
    /\ UNCHANGED <<list, passed, got, clean, wrote>>

\* getByIds(l, [ ...ids ])
DoGetByIds ==
    \E ids \in IdSeqs :
        LET c == getByIds(heap, list, ids)
        IN  Read("getByIds", ids, c.h, c.r)

\* map(l, mapper)
DoMap ==
    \E mapper \in Mappers :
        LET c == map(heap, list, mapper)
        IN  Read("map", mapper, c.h, [r |-> c.r, calls |-> c.calls])

\* mapIds(l, mapper)
DoMapIds ==
    \E mapper \in Mappers :
        LET c == mapIds(heap, list, mapper)
        IN  Read("mapIds", mapper, c.h, [r |-> c.r, calls |-> c.calls])

ViewNext ==
    \/ DoAppend
    \/ DoInsert
    \/ DoUpdate
    \/ DoRemoveById
    \/ DoSort
    \/ DoGetByIds
    \/ DoMap
    \/ DoMapIds

ViewSpec == ViewInit /\ [][ViewNext]_vars

\* C11: getByIds(list, ids) returns exactly one element per entry of ids
\* under which the list holds an element (an id that getById finds), in the
\* order of ids and with that element's content; entries the list holds
\* nothing under are skipped, so that empty ids, or ids none of which is
\* held, give the empty array.
C11_GetByIds ==
    lastOp = "getByIds" =>
        LET present == SelectSeq(inp, LAMBDA id : getById(heap, list, id) # NoRef)
        IN  /\ Len(out) = Len(present)
            /\ \A i \in 1..Len(out) :
                   heap[out[i]] = heap[getById(heap, list, present[i])]

\* ids in another order than the list's keys, with an id the list lacks
C11_Witness ==
    /\ lastOp = "getByIds"
    /\ heap[list].keys = <<"1", "2">>
    /\ inp = <<"2", "", "1">>
    /\ Len(out) = 2

\* C12: for every index inside the key sequence getIdByIndex returns the key
\* at that position and getByIndex returns what getById finds under that
\* key, whatever string the key is, the empty string included; for a
\* negative index or one past the end both return absence.
C12_ByIndex ==
    \A index \in -1..(MaxSteps + 1) :
        IF 0 <= index /\ index < getCount(heap, list)
        THEN /\ getIdByIndex(heap, list, index) = heap[list].keys[index + 1]
             /\ getByIndex(heap, list, index)
                  = getById(heap, list, getIdByIndex(heap, list, index))
        ELSE /\ getIdByIndex(heap, list, index) = Undefined
             /\ getByIndex(heap, list, index) = NoRef

\* how often k occurs in s
Count(s, k) == Cardinality({ i \in 1..Len(s) : s[i] = k })

\* C13: on a list reached through the library's operations alone (the
\* caller has written to no object), sort(list, comparator) returns a list
\* whose key sequence is a permutation of the input's, in which no element
\* compares after its successor, and whose mapping has the keys and content
\* of the input's mapping.
C13_SortPermutation ==
    (lastOp = "sort" /\ ~wrote) =>
        LET keys == heap[list].keys
            elem(i) == Deref(heap, getById(heap, list, keys[i]))
        IN  /\ \A k \in Range(keys) \cup Range(heap[arg].keys) :
                   Count(keys, k) = Count(heap[arg].keys, k)
            /\ \A i \in 1..(Len(keys) - 1) :
                   compareWith(inp, elem(i), elem(i + 1)) <= 0
            /\ Entries(heap, list) = Entries(heap, arg)

\* the permutations of 1..n
Perms(n) == { p \in [1..n -> 1..n] : \A i, j \in 1..n : p[i] = p[j] => i = j }

\* C14: sort is stable. The result's key sequence lists the ids of the
\* input's elements, each position of the input once, and two elements for
\* which the comparator returns 0 stand in the result in the order they had
\* in the input's key sequence.
C14_SortStable ==
    lastOp = "sort" =>
        LET before == heap[arg].keys
            n == Len(before)
            elem(q) == Deref(heap, getById(heap, arg, before[q]))
        IN  /\ Len(heap[list].keys) = n
            /\ \E p \in Perms(n) :
                  /\ \A m \in 1..n : heap[list].keys[m] = Get(elem(p[m]), "id")
                  /\ \A m, k \in 1..n :
                        (m < k /\ compareWith(inp, elem(p[m]), elem(p[k])) = 0)
                            => p[m] < p[k]

\* ids 2, 1, "" with ages 2, 2, 1 sorted by ascending age: "", 2, 1
C14_Witness ==
    /\ lastOp = "sort"
    /\ inp = "byAge"
    /\ heap[arg].keys = <<"2", "1", "">>
    /\ heap[list].keys = <<"", "2", "1">>

\* C15: map and mapIds call the callback once per position of the key
\* sequence, from left to right, with the element (for mapIds: the key) at
\* that position, an index that starts at 0 and grows by 1 per call, and
\* the list that was passed in as third argument; they return the
\* callback's return values in call order.
C15_MapCalls ==
    lastOp \in {"map", "mapIds"} =>
        LET keys == heap[list].keys
            calls == out.calls
        IN  /\ Len(calls) = Len(keys)
            /\ \A i \in 1..Len(keys) :
                  /\ IF lastOp = "map"
                     THEN heap[calls[i][1]]
                            = Deref(heap, getById(heap, list, keys[i]))
                     ELSE calls[i][1] = keys[i]
                  /\ calls[i][2] = i - 1
                  /\ calls[i][3] = list
            /\ out.r = [i \in 1..Len(keys) |->
                           Apply(inp, calls[i][1], calls[i][2], calls[i][3])]

\* map over three elements with the callback that returns the index
C15_Witness ==
    /\ lastOp = "map"
    /\ inp = "index"
    /\ heap[list].keys = <<"2", "", "1">>
    /\ out.r = <<0, 1, 2>>

\* C16: filter(list, predicate) returns exactly the elements of
\* toArray(list) for which the predicate is true, in the list's order, and
\* leaves the list unchanged.
C16_Filter ==
    \A p \in Predicates :
        LET c == filter(heap, list, p)
            ta == toArray(heap, list)
            expected == SelectSeq(ta.r, LAMBDA a : Holds(p, ta.h[a]))
        IN  /\ ~c.thrown
            /\ Len(c.r) = Len(expected)
            /\ \A i \in 1..Len(c.r) : c.h[c.r[i]] = ta.h[expected[i]]
            /\ Content(c.h, list) = Content(heap, list)

\* C17: when the array given to fromArray holds two elements with the same
\* id, fromArray (which raises no error) returns a list in which that id
\* occurs exactly once in the key sequence and is mapped to the content of
\* the later element.
C17_FromArrayDuplicate ==
    lastOp = "fromArray" =>
        \A i, j \in 1..Len(passed) :
            (i < j /\ heap[passed[i]].id = heap[passed[j]].id) =>
                LET id == heap[passed[i]].id
                    last == CHOOSE m \in 1..Len(passed) :
                                /\ heap[passed[m]].id = id
                                /\ \A q \in 1..Len(passed) :
                                       heap[passed[q]].id = id => q <= m
                IN  /\ Count(heap[list].keys, id) = 1
                    /\ heap[getById(heap, list, id)] = heap[passed[last]]

\* C18: in every list produced by fromArray followed by any sequence of
\* append, insert, update, removeById and sort calls (the library's calls
\* alone: the caller has written to no object), each entry of the mapping
\* is stored under the key equal to its own id field.
C18_StoredUnderOwnId ==
    ~wrote =>
        \A k \in DOMAIN heap[list].elements :
            Get(heap[heap[list].elements[k]], "id") = k

\* a removeById that rebuilt a mapping of two entries from their id fields
C18_Witness ==
    /\ ~wrote
    /\ lastOp = "removeById"
    /\ Cardinality(DOMAIN heap[arg].elements) = 2
    /\ Cardinality(DOMAIN heap[list].elements) = 1

====
